---- MODULE Spec2Model ----
(***************************************************************************)
(* A model of the chemquiz core: the quiz engine (src/src/quiz.rs), the    *)
(* compound display strings (src/src/compound.rs) and the catalog queries  *)
(* (src/src/catalog.rs).                                                   *)
(*                                                                         *)
(* Conventions.  Rust indices are kept 0-based as values (idx,             *)
(* correct_index); a TLA+ sequence s holds Rust's s[i] at s[i + 1].        *)
(* Option<String> is <<>> for None and <<s>> for Some(s).                  *)
(***************************************************************************)
EXTENDS Integers, Sequences, FiniteSets, TLC

VARIABLES
    compounds,      \* generate_quiz argument: the compound slice of the last call
    mode,           \* generate_quiz argument: the QuizMode of the last call
    option_count,   \* generate_quiz argument: the option count of the last call
    rngBefore,      \* state of the caller's random source when the call started
    rng,            \* state of the caller's random source when the call returned
    outcome,        \* what the last call returned (NoCall before the first call)
    replay,         \* what a repeated call with the same arguments returned
    entries,        \* Catalog.entries
    built,          \* the entries Catalog::new was given
    query,          \* the last catalog query made (NoQuery before the first)
    queryResult,    \* what the last catalog query returned
    held,           \* the caller's own copy of the last returned list
    outline,        \* the manifest document: its nodes in document order
    manifest,       \* the CatalogManifest deserialized from the document
    leaves,         \* what CatalogManifest::leaves returned (NotFlattened before)
    fs,             \* the directory tree under the catalog root
    loaded,         \* what Catalog::from_directory returned (NotLoaded before)
    subject,        \* the Compound whose display strings are asked for
    labels,         \* what english_label and display_name returned for it
    app,            \* the signals of the wasm App component
    requests,       \* the fetches handle_selection started, in click order
    asked,          \* questions generated since the last start_game
    log             \* the questions answered since the last start_game

vars == <<compounds, mode, option_count, rngBefore, rng, outcome, replay,
          entries, built, query, queryResult, held,
          outline, manifest, leaves, fs, loaded, subject, labels,
          app, requests, asked, log>>

quizVars == <<compounds, mode, option_count, rngBefore, rng, outcome, replay>>
catalogVars == <<entries, built, query, queryResult, held>>
manifestVars == <<outline, manifest, leaves>>

\* what a step of one component leaves alone
directoryVars == <<fs, loaded>>
compoundVars == <<subject, labels>>
appVars == <<app, requests, asked, log>>
exceptQuiz == <<catalogVars, manifestVars, directoryVars, compoundVars, appVars>>
exceptCatalog == <<quizVars, manifestVars, directoryVars, compoundVars, appVars>>
exceptManifest == <<quizVars, catalogVars, directoryVars, compoundVars, appVars>>
exceptDirectory == <<quizVars, catalogVars, manifestVars, compoundVars, appVars>>
exceptCompound == <<quizVars, catalogVars, manifestVars, directoryVars, appVars>>
exceptApp == <<quizVars, catalogVars, manifestVars, directoryVars, compoundVars>>

(***************************************************************************)
(* Bounds of the model.                                                    *)
(***************************************************************************)
\* longest compound slice handed to generate_quiz
MaxLen == 3
\* largest option_count handed to generate_quiz
MaxOptionCount == 3
\* number of distinct states of the random source
RngStates == 36
\* most entries a catalog is built from
MaxEntries == 2
\* deepest category path, of an entry or of a query
MaxDepth == 2
\* most nodes in a manifest
MaxNodes == 4
\* most files and directories under the catalog root
MaxFsEntries == 3
\* most catalog leaves clicked in the wasm UI
MaxClicks == 2
\* most questions generated after one start_game
MaxQuestions == 2

(***************************************************************************)
(* Helpers on sequences.                                                   *)
(***************************************************************************)
Range(s) == {s[i] : i \in 1..Len(s)}

SeqsUpTo(S, n) == UNION {[1..k -> S] : k \in 0..n}

None == <<>>
Some(s) == <<s>>

(***************************************************************************)
(* compound.rs                                                             *)
(***************************************************************************)
Compound(iupac, common, local, skeletal, molecular) ==
    [iupac_name |-> iupac, common_name |-> common, local_name |-> local,
     skeletal_formula |-> skeletal, molecular_formula |-> molecular]

\* [String]::join
RECURSIVE join(_, _)
join(parts, sep) ==
    IF parts = <<>> THEN ""
    ELSE IF Len(parts) = 1 THEN parts[1]
    ELSE parts[1] \o sep \o join(Tail(parts), sep)

\* the common name appended whenever there is one
english_label_any_common(c) ==
    IF c.common_name # None
    THEN c.iupac_name \o " (" \o c.common_name[1] \o ")"
    ELSE c.iupac_name

english_label(c) ==
    IF c.common_name # None /\ c.common_name[1] # c.iupac_name
    THEN c.iupac_name \o " (" \o c.common_name[1] \o ")"
    ELSE c.iupac_name

display_name(c) ==
    LET parts == <<english_label(c)>> \o
                 (IF c.local_name # None THEN <<"/ " \o c.local_name[1]>> ELSE <<>>)
    IN  join(parts, " ")

display_structure(c) ==
    c.skeletal_formula \o " (" \o c.molecular_formula \o ")"

(***************************************************************************)
(* The compounds the model draws its inputs from.  Two of them share a     *)
(* structure string under different names, two share a display name under  *)
(* different structures (one through a common name equal to the IUPAC      *)
(* name), and one carries a common and a local name.                       *)
(***************************************************************************)
Ethanol == Compound("ethanol", None, None, "CH3-CH2-OH", "C2H6O")
EthylAlcohol == Compound("ethyl alcohol", None, None, "CH3-CH2-OH", "C2H6O")
EthanolCondensed == Compound("ethanol", Some("ethanol"), None, "C2H5OH", "C2H6O")
Benzene == Compound("benzene", Some("benzol"), Some("benzen"), "C6H6", "C6H6")

CompoundPool == {Ethanol, EthylAlcohol, EthanolCondensed, Benzene}

(***************************************************************************)
(* quiz.rs                                                                 *)
(***************************************************************************)
QuizModes == {"NameToStructure", "StructureToName"}

\* A value no call returns.
NoCall == [tag |-> "NoCall"]

Ok(value) == [tag |-> "Ok", value |-> value]
Err(error) == [tag |-> "Err", error |-> error]

\* QuizError
OptionCountTooSmall == [kind |-> "OptionCountTooSmall"]

NotEnoughCompoundsSwapped(required, available) ==
    [kind |-> "NotEnoughCompounds", required |-> available, available |-> required]

NotEnoughCompounds(required, available) ==
    [kind |-> "NotEnoughCompounds", required |-> required, available |-> available]

InsufficientUniqueOptionsSwapped(required, unique) ==
    [kind |-> "InsufficientUniqueOptions", required |-> unique, unique |-> required]

InsufficientUniqueOptions(required, unique) ==
    [kind |-> "InsufficientUniqueOptions", required |-> required, unique |-> unique]

\* the label a compound contributes as an answer option (the two match arms)
option_text(compound, m) ==
    IF m = "NameToStructure" THEN display_structure(compound)
    ELSE display_name(compound)

\* the complementary display string used as the prompt
prompt_text(compound, m) ==
    IF m = "NameToStructure" THEN display_name(compound)
    ELSE display_structure(compound)

(***************************************************************************)
(* The random source.  Its state is a number; a draw below an upper bound  *)
(* takes the state's remainder and leaves the quotient, so that every      *)
(* sequence of draws whose bounds multiply to at most RngStates is the     *)
(* outcome of some state.                                                  *)
(***************************************************************************)
RngSeeds == 0..(RngStates - 1)

gen_index(r, ubound) == [value |-> r % ubound, rng |-> r \div ubound]

swap(s, i, j) == [s EXCEPT ![i + 1] = s[j + 1], ![j + 1] = s[i + 1]]

\* SliceRandom::shuffle: for i in (1..len).rev() { swap(i, gen_index(rng, i + 1)) }
RECURSIVE shuffle_from(_, _, _, _)
shuffle_from(s, r, i, draws) ==
    IF i < 1 THEN [slice |-> s, rng |-> r, draws |-> draws]
    ELSE LET d == gen_index(r, i + 1)
         IN  shuffle_from(swap(s, i, d.value), d.rng, i - 1, draws + 1)

\* a shuffle that leaves the slice as it is and draws nothing
shuffle_nothing(s, r) == [slice |-> s, rng |-> r, draws |-> 0]

shuffle(s, r) == shuffle_from(s, r, Len(s) - 1, 0)

truncate_keep_all(s, len) == s

\* Vec::truncate
truncate(s, len) == IF Len(s) > len THEN SubSeq(s, 1, len) ELSE s

(***************************************************************************)
(* HashSet<String> with its per-instance RandomState.  The set is kept as  *)
(* the sequence of its elements in iteration order; the hidden hash keys   *)
(* (hkeys) decide where a new element lands in that order.  insert         *)
(* returns whether the element was new.                                    *)
(***************************************************************************)
HashKeys == {0, 1}

hashset_insert(set, label, hkeys) ==
    IF label \in Range(set)
    THEN [set |-> set, inserted |-> FALSE]
    ELSE [set |-> IF hkeys = 0 THEN Append(set, label) ELSE <<label>> \o set,
          inserted |-> TRUE]

\* the dedup loop: (seen, unique_indices) after the compounds from idx on
RECURSIVE dedup_from(_, _, _, _, _, _)
dedup_from(cs, m, hkeys, idx, seen, unique_indices) ==
    IF idx >= Len(cs) THEN [seen |-> seen, unique_indices |-> unique_indices]
    ELSE LET label == option_text(cs[idx + 1], m)
             ins == hashset_insert(seen, label, hkeys)
         IN  dedup_from(cs, m, hkeys, idx + 1, ins.set,
                        IF ins.inserted THEN Append(unique_indices, idx)
                        ELSE unique_indices)

\* 0-based index of the first compound carrying an option label
first_index_of(cs, m, label) ==
    CHOOSE idx \in 0..(Len(cs) - 1) :
        /\ option_text(cs[idx + 1], m) = label
        /\ \A j \in 0..(idx - 1) : option_text(cs[j + 1], m) # label

\* the dedup loop without the `seen` test: every index is kept
unique_indices_no_dedup(cs, m, hkeys) == [i \in 1..Len(cs) |-> i - 1]

\* the unique indices read back from the set in its iteration order
unique_indices_from_seen(cs, m, hkeys) ==
    LET seen == dedup_from(cs, m, hkeys, 0, <<>>, <<>>).seen
    IN  [i \in 1..Len(seen) |-> first_index_of(cs, m, seen[i])]

\* the dedup loop keeping the last compound of each label, not the first
unique_indices_keep_last(cs, m, hkeys) ==
    LET last == {idx \in 0..(Len(cs) - 1) :
                    \A j \in (idx + 1)..(Len(cs) - 1) :
                        option_text(cs[j + 1], m) # option_text(cs[idx + 1], m)}
    IN  [i \in 1..Cardinality(last) |->
            CHOOSE idx \in last : Cardinality({j \in last : j < idx}) = i - 1]

unique_indices_of(cs, m, hkeys) ==
    dedup_from(cs, m, hkeys, 0, <<>>, <<>>).unique_indices

option_count_too_small_below_one(oc) == oc < 1

option_count_too_small_below_three(oc) == oc < 3

\* if option_count < 2
option_count_too_small(oc) == oc < 2

\* options.iter().position(..) forgotten: the first sampled stays "first"
position_unshuffled(options, correct_compound_index) == 0

\* options.iter().position(|(idx, _)| *idx == correct_compound_index)
position(options, correct_compound_index) ==
    (CHOOSE p \in 1..Len(options) :
        /\ options[p][1] = correct_compound_index
        /\ \A q \in 1..(p - 1) : options[q][1] # correct_compound_index) - 1

\* a draw made before the checks
rng_drawn_from(r) == gen_index(r, 2).rng

\* the random source on an error return: every `return Err` comes before the
\* first use of rng
rng_unused(r) == r

\* generate_quiz; hkeys is the RandomState of its HashSet.  Returns the
\* Result, the random source's state on return and the number of draws made.
generate_quiz(r, cs, m, oc, hkeys) ==
    IF option_count_too_small(oc)
    THEN [result |-> Err(OptionCountTooSmall), rng |-> rng_unused(r), draws |-> 0]
    ELSE IF Len(cs) < oc
    THEN [result |-> Err(NotEnoughCompounds(oc, Len(cs))),
          rng |-> rng_unused(r), draws |-> 0]
    ELSE
    LET unique_indices == unique_indices_of(cs, m, hkeys) IN
    IF Len(unique_indices) < oc
    THEN [result |-> Err(InsufficientUniqueOptions(oc, Len(unique_indices))),
          rng |-> rng_unused(r), draws |-> 0]
    ELSE
    LET first == shuffle(unique_indices, r)
        selected == truncate(first.slice, oc)
        correct_compound_index == selected[1]
        options == [i \in 1..Len(selected) |->
                       <<selected[i], option_text(cs[selected[i] + 1], m)>>]
        second == shuffle(options, first.rng)
        correct_index == position(second.slice, correct_compound_index)
        prompt == prompt_text(cs[correct_compound_index + 1], m)
    IN  [result |-> Ok([mode |-> m,
                        prompt |-> prompt,
                        options |-> [i \in 1..Len(second.slice) |-> second.slice[i][2]],
                        correct_index |-> correct_index]),
         rng |-> second.rng,
         draws |-> first.draws + second.draws]

(***************************************************************************)
(* The quiz engine's callers: a call with a freshly seeded random source,  *)
(* and the same call made again from the same seed.                        *)
(***************************************************************************)
CompoundLists == SeqsUpTo(CompoundPool, MaxLen)

NoReplay == [tag |-> "NoReplay"]

QuizIdle ==
    /\ compounds = <<>>
    /\ mode = "NameToStructure"
    /\ option_count = 0
    /\ rngBefore = 0
    /\ rng = 0
    /\ outcome = NoCall
    /\ replay = NoReplay

GenerateQuiz ==
    /\ outcome = NoCall
    /\ \E cs \in CompoundLists, m \in QuizModes, oc \in 0..MaxOptionCount,
          seed \in RngSeeds, hkeys \in HashKeys :
        LET call == generate_quiz(seed, cs, m, oc, hkeys) IN
        /\ compounds' = cs
        /\ mode' = m
        /\ option_count' = oc
        /\ rngBefore' = seed
        /\ rng' = call.rng
        /\ outcome' = call.result
        /\ replay' = NoReplay
        /\ UNCHANGED exceptQuiz

Replay ==
    /\ outcome # NoCall
    /\ replay = NoReplay
    /\ \E hkeys \in HashKeys :
        LET call == generate_quiz(rngBefore, compounds, mode, option_count, hkeys) IN
        replay' = [tag |-> "Replayed", result |-> call.result, rng |-> call.rng]
    /\ UNCHANGED <<compounds, mode, option_count, rngBefore, rng, outcome>>
    /\ UNCHANGED exceptQuiz

(***************************************************************************)
(* catalog.rs                                                              *)
(***************************************************************************)
CatalogEntry(compound, categories) ==
    [compound |-> compound, categories |-> categories]

\* CatalogError
EmptyPath == [kind |-> "EmptyPath"]
CategoryNotFound(path) == [kind |-> "CategoryNotFound", path |-> path]

\* a test for the whole path, not for a prefix
starts_with_whole(s, needle) == s = needle

\* a prefix test that looks at the top-level label only
starts_with_first_label(s, needle) ==
    needle = <<>> \/ (s # <<>> /\ s[1] = needle[1])

\* <[String]>::starts_with
starts_with(s, needle) ==
    /\ Len(needle) <= Len(s)
    /\ SubSeq(s, 1, Len(needle)) = needle

path_is_empty_never(path) == FALSE

\* path.is_empty()
path_is_empty(path) == Len(path) = 0

\* entries.iter().filter(..).map(|entry| entry.compound.clone()).collect()
RECURSIVE filter_map_from(_, _, _)
filter_map_from(es, path, i) ==
    IF i > Len(es) THEN <<>>
    ELSE (IF starts_with(es[i].categories, path) THEN <<es[i].compound>> ELSE <<>>)
         \o filter_map_from(es, path, i + 1)

\* compounds_for without the matches.is_empty() test
compounds_for_empty_ok(es, path) ==
    IF path_is_empty(path) THEN Err(EmptyPath)
    ELSE Ok(filter_map_from(es, path, 1))

\* Catalog::compounds_for
compounds_for(es, path) ==
    IF path_is_empty(path) THEN Err(EmptyPath)
    ELSE LET matches == filter_map_from(es, path, 1) IN
         IF matches = <<>> THEN Err(CategoryNotFound(join(path, " / ")))
         ELSE Ok(matches)

\* Catalog::all_compounds
all_compounds(es) == [i \in 1..Len(es) |-> es[i].compound]

\* only the entry's full path, as an earlier version listed
depths_full_only(categories) == {Len(categories)}

\* for depth in 1..=entry.categories.len()
depths(categories) == 1..Len(categories)

\* Catalog::available_paths; the BTreeSet is kept as the set of its elements
available_paths(es) ==
    UNION {{SubSeq(es[i].categories, 1, depth) : depth \in depths(es[i].categories)} :
              i \in 1..Len(es)}

\* a query that consumes what it returns
entries_after_query_drained(es) == <<>>

\* the queries take &self and the fields have no interior mutability
entries_after_query(es) == es

(***************************************************************************)
(* The catalog's callers: a catalog built by Catalog::new from any list    *)
(* of entries (category paths may be empty or repeat), then queried.       *)
(***************************************************************************)
CategoryLabels == {"Organic", "Alcohols"}
CategoryPaths == SeqsUpTo(CategoryLabels, MaxDepth)
CatalogCompounds == {Ethanol, Benzene}
\* the category paths of the stored entries: a category is not nested in
\* itself, so no label comes twice in a path (queries ask for any path)
EntryPaths ==
    {p \in CategoryPaths : \A i, j \in 1..Len(p) : i < j => p[i] # p[j]}
CatalogEntries ==
    {CatalogEntry(c, p) : c \in CatalogCompounds, p \in EntryPaths}

NoQuery == [op |-> "NoQuery"]
NoResult == [tag |-> "NoQuery"]

NothingHeld == [tag |-> "NothingHeld"]

\* Catalog::new
CatalogNew ==
    /\ entries \in SeqsUpTo(CatalogEntries, MaxEntries)
    /\ built = entries
    /\ query = NoQuery
    /\ queryResult = NoResult
    /\ held = NothingHeld

CatalogIdle ==
    /\ entries = <<>>
    /\ built = <<>>
    /\ query = NoQuery
    /\ queryResult = NoResult
    /\ held = NothingHeld

\* what the caller owns after a call: the returned Vec, if one was returned
held_after(result) ==
    IF result.tag = "Ok" THEN [tag |-> "Vec", vec |-> result.value] ELSE NothingHeld

CompoundsFor ==
    /\ \E path \in CategoryPaths :
        LET result == compounds_for(entries, path) IN
        /\ query' = [op |-> "compounds_for", path |-> path]
        /\ queryResult' = result
        /\ held' = held_after(result)
    /\ entries' = entries_after_query(entries)
    /\ UNCHANGED built
    /\ UNCHANGED exceptCatalog

AllCompounds ==
    /\ query' = [op |-> "all_compounds"]
    /\ queryResult' = Ok(all_compounds(entries))
    /\ held' = held_after(Ok(all_compounds(entries)))
    /\ entries' = entries_after_query(entries)
    /\ UNCHANGED built
    /\ UNCHANGED exceptCatalog

AvailablePaths ==
    /\ query' = [op |-> "available_paths"]
    /\ queryResult' = Ok(available_paths(entries))
    /\ held' = NothingHeld
    /\ entries' = entries_after_query(entries)
    /\ UNCHANGED built
    /\ UNCHANGED exceptCatalog

\* the caller clears the Vec<Compound> a query returned to it
ModifyReturned ==
    /\ held # NothingHeld
    /\ held.vec # <<>>
    /\ held' = [held EXCEPT !.vec = <<>>]
    /\ UNCHANGED <<entries, built, query, queryResult>>
    /\ UNCHANGED exceptCatalog

(***************************************************************************)
(* catalog_manifest.rs                                                     *)
(***************************************************************************)
CatalogNode(label, slug, file, children) ==
    [label |-> label, slug |-> slug, file |-> file, children |-> children]

CatalogLeaf(path, file) == [path |-> path, file |-> file]

\* a leaf only for a node without children
emits_leaf_only_childless(node) == node.file # None /\ node.children = <<>>

\* if let Some(file) = &node.file
emits_leaf(node) == node.file # None

\* the children walked last to first
children_reversed(children) ==
    [k \in 1..Len(children) |-> children[Len(children) + 1 - k]]

\* for child in &node.children
children_in_order(children) == children

\* one accumulator shared with the child and never popped
prefix_shared_with_child(own, childs) == childs

\* the child gets prefix.clone(): the caller's prefix is as it was
prefix_after_child(own, childs) == own

\* gather_leaves and its loop over the children from the k-th on; each
\* returns the leaves pushed so far and the state of its own prefix
RECURSIVE gather_leaves(_, _, _)
RECURSIVE gather_children(_, _, _, _)
gather_leaves(node, prefix, acc) ==
    LET pushed == Append(prefix, node.label)
        emitted == IF emits_leaf(node)
                   THEN Append(acc, CatalogLeaf(pushed, node.file[1]))
                   ELSE acc
    IN  gather_children(children_in_order(node.children), 1, pushed, emitted)

gather_children(children, k, prefix, acc) ==
    IF k > Len(children) THEN [leaves |-> acc, prefix |-> prefix]
    ELSE LET done == gather_leaves(children[k], prefix, acc)
         IN  gather_children(children, k + 1,
                             prefix_after_child(prefix, done.prefix), done.leaves)

\* the loop of CatalogManifest::leaves over the roots from the k-th on
RECURSIVE gather_roots(_, _, _)
gather_roots(roots, k, acc) ==
    IF k > Len(roots) THEN acc
    ELSE gather_roots(roots, k + 1, gather_leaves(roots[k], <<>>, acc).leaves)

\* CatalogManifest::leaves
manifest_leaves(m) == gather_roots(m.roots, 1, <<>>)

(***************************************************************************)
(* The manifests the model flattens.  A manifest document is given as its  *)
(* nodes in document order, each with its nesting depth, its label and     *)
(* whether it names a file; every file-bearing node names a file of its    *)
(* own.  Deserializing the document gives the tree of CatalogNodes.        *)
(***************************************************************************)
ManifestLabels == {"Organic", "Alcohols"}

ManifestFiles == <<"catalog/a.json", "catalog/b.json", "catalog/c.json",
                   "catalog/d.json", "catalog/e.json", "catalog/f.json">>

\* depths of a forest in document order: the first node is a root and a node
\* lies at most one level below the node before it
WellNested(depth) ==
    /\ Len(depth) > 0 => depth[1] = 1
    /\ \A i \in 2..Len(depth) : depth[i] <= depth[i - 1] + 1

OutlinesUpTo(most) ==
    UNION {{[i \in 1..n |-> [depth |-> d[i], label |-> l[i],
                             file |-> IF f[i] THEN Some(ManifestFiles[i]) ELSE None]] :
               d \in {x \in [1..n -> 1..n] : WellNested(x)},
               l \in [1..n -> ManifestLabels],
               f \in [1..n -> BOOLEAN]} :
           n \in 0..most}

\* the last node of the subtree of node i
SubtreeEnd(o, i) ==
    CHOOSE j \in i..Len(o) :
        /\ \A k \in (i + 1)..j : o[k].depth > o[i].depth
        /\ j < Len(o) => o[j + 1].depth <= o[i].depth

RECURSIVE Ascending(_)
Ascending(S) ==
    IF S = {} THEN <<>>
    ELSE LET least == CHOOSE x \in S : \A y \in S : x <= y
         IN  <<least>> \o Ascending(S \ {least})

RECURSIVE DeserializeNode(_, _)
DeserializeNode(o, i) ==
    LET kids == Ascending({j \in (i + 1)..SubtreeEnd(o, i) :
                              o[j].depth = o[i].depth + 1})
    IN  CatalogNode(o[i].label, o[i].label, o[i].file,
                    [k \in 1..Len(kids) |-> DeserializeNode(o, kids[k])])

Deserialize(o) ==
    LET tops == Ascending({j \in 1..Len(o) : o[j].depth = 1})
    IN  [roots |-> [k \in 1..Len(tops) |-> DeserializeNode(o, tops[k])]]

NotFlattened == [tag |-> "NotFlattened"]

ManifestIdle ==
    /\ outline = <<>>
    /\ manifest = [roots |-> <<>>]
    /\ leaves = NotFlattened

ManifestLoaded ==
    /\ outline \in OutlinesUpTo(MaxNodes)
    /\ manifest = Deserialize(outline)
    /\ leaves = NotFlattened

Leaves ==
    /\ leaves = NotFlattened
    /\ leaves' = Ok(manifest_leaves(manifest))
    /\ UNCHANGED <<outline, manifest>>
    /\ UNCHANGED exceptManifest

(***************************************************************************)
(* catalog.rs: Catalog::from_directory.  The file system is the list of    *)
(* the files and directories under the root, in the order read_dir yields  *)
(* them, each with its nesting depth.  A directory has a name, to_str of   *)
(* the name (None when the name is not valid Unicode) and may refuse to be *)
(* listed; a file has a stem, an extension and its data.  A failure of     *)
(* read_dir part-way through a listing gives the same error as a failure   *)
(* at its start and is modelled as that.                                   *)
(***************************************************************************)
EmptyCategoryPath == [tag |-> "EmptyCategoryPath"]
ReadError(path) == [tag |-> "ReadError", path |-> path]
ParseError(path) == [tag |-> "ParseError", path |-> path]

\* Path::join
path_join(root, name) == root \o "/" \o name

\* Path::file_name of a file
file_name(entry) == entry.stem \o "." \o entry.extension

\* path.file_name().and_then(|value| value.to_str()) of a directory
dir_name_to_str(entry) == IF entry.unicode THEN Some(entry.name) ELSE None

\* the name of an entry as Path::display prints it
entry_name(entry) == IF entry.is_dir THEN entry.name ELSE file_name(entry)

\* no file is taken for the index file
is_index_json_never(entry) == FALSE

\* name == "index.json"
is_index_json(entry) == file_name(entry) = "index.json"

\* serde_json::from_slice::<CompoundList> succeeds
parses_as_compound_list(data) == data.tag = "CompoundList"

\* the state threaded through the walk: the entries pushed so far, the files
\* handed to fs::read so far, and the error the ? operator returned, if any
Walk(walked_entries, reads, error) ==
    [entries |-> walked_entries, reads |-> reads, error |-> error]

failed(error, st) == Walk(st.entries, st.reads, Some(error))

\* a document that does not parse is passed over
on_parse_error_skip(path, st) == st

\* map_err(ParseError { path })?
on_parse_error(path, st) == failed(ParseError(path), st)

\* the rows of the file system listed by read_dir(dir), dir = 0 for the root
read_dir(f, dir) ==
    LET depth == IF dir = 0 THEN 0 ELSE f.rows[dir].depth
        last == IF dir = 0 THEN Len(f.rows) ELSE SubtreeEnd(f.rows, dir)
    IN  Ascending({j \in (dir + 1)..last : f.rows[j].depth = depth + 1})

listable(f, dir) == IF dir = 0 THEN f.listable ELSE f.rows[dir].entry.listable

\* lines 142..145
next_categories(categories, entry) ==
    IF dir_name_to_str(entry) # None
    THEN Append(categories, dir_name_to_str(entry)[1])
    ELSE categories

append_from_file(entry, path, categories, st) ==
    IF categories = <<>>
    THEN IF is_index_json(entry) THEN st ELSE failed(EmptyCategoryPath, st)
    ELSE LET read == Walk(st.entries, Append(st.reads, path), st.error)
         IN  IF entry.data.tag = "Unreadable" THEN failed(ReadError(path), read)
             ELSE IF ~parses_as_compound_list(entry.data) THEN on_parse_error(path, read)
             ELSE Walk(read.entries \o
                         [k \in 1..Len(entry.data.compounds) |->
                             CatalogEntry(entry.data.compounds[k], categories)],
                       read.reads, read.error)

\* collect_entries and its loop over the walker from the k-th entry on
RECURSIVE collect_entries(_, _, _, _, _)
RECURSIVE collect_from(_, _, _, _, _, _)
collect_entries(f, dir, root, categories, st) ==
    IF ~listable(f, dir) THEN failed(ReadError(root), st)
    ELSE collect_from(f, read_dir(f, dir), 1, root, categories, st)

collect_from(f, walker, k, root, categories, st) ==
    IF k > Len(walker) THEN st
    ELSE LET entry == f.rows[walker[k]].entry
             path == path_join(root, entry_name(entry))
             done == IF entry.is_dir
                     THEN collect_entries(f, walker[k], path,
                                          next_categories(categories, entry), st)
                     ELSE IF entry.extension = "json"
                     THEN append_from_file(entry, path, categories, st)
                     ELSE st
         IN  IF done.error # None THEN done
             ELSE collect_from(f, walker, k + 1, root, categories, done)

RootPath == "catalog"

\* Catalog::from_directory, with the files it read
from_directory(f) ==
    LET done == collect_entries(f, 0, RootPath, <<>>, Walk(<<>>, <<>>, None))
    IN  [result |-> IF done.error # None THEN Err(done.error[1]) ELSE Ok(done.entries),
         reads |-> done.reads]

(***************************************************************************)
(* The directory trees the model loads.                                    *)
(***************************************************************************)
DirEntry(name, unicode, can_list) ==
    [is_dir |-> TRUE, name |-> name, unicode |-> unicode, listable |-> can_list]

FileEntry(stem, extension, data) ==
    [is_dir |-> FALSE, stem |-> stem, extension |-> extension, data |-> data]

CompoundListDoc == [tag |-> "CompoundList", compounds |-> <<Ethanol, Benzene>>]
ManifestDoc == [tag |-> "Manifest"]
MalformedDoc == [tag |-> "Malformed"]
Unreadable == [tag |-> "Unreadable"]

\* "Ethers?" stands for a name that is not valid Unicode, as display prints it
FsEntries ==
    {DirEntry(n[1], n[2], l) :
        n \in {<<"Organic", TRUE>>, <<"Alcohols", TRUE>>, <<"Ethers?", FALSE>>},
        l \in BOOLEAN}
    \cup {FileEntry("compounds", "json", d) : d \in {CompoundListDoc, MalformedDoc, Unreadable}}
    \cup {FileEntry("index", "json", d) : d \in {ManifestDoc, CompoundListDoc}}
    \cup {FileEntry("notes", "txt", MalformedDoc)}

\* the directory holding row i (0 for the root)
parent_dir(rows, i) ==
    IF rows[i].depth = 1 THEN 0
    ELSE CHOOSE j \in 1..(i - 1) :
            /\ rows[j].depth = rows[i].depth - 1
            /\ \A k \in (j + 1)..(i - 1) : rows[k].depth >= rows[i].depth

\* rows that a file system can hold: entries sit in directories that can be
\* listed, and the names within one directory differ
IsTree(rows) ==
    /\ \A i \in 1..Len(rows) :
        parent_dir(rows, i) # 0 =>
            /\ rows[parent_dir(rows, i)].entry.is_dir
            /\ rows[parent_dir(rows, i)].entry.listable
    /\ \A i, j \in 1..Len(rows) :
        (i < j /\ parent_dir(rows, i) = parent_dir(rows, j)) =>
            entry_name(rows[i].entry) # entry_name(rows[j].entry)

FsTreesUpTo(most) ==
    UNION {{rows \in {[i \in 1..n |-> [depth |-> d[i], entry |-> e[i]]] :
                         d \in {x \in [1..n -> 1..n] : WellNested(x)},
                         e \in [1..n -> FsEntries]} : IsTree(rows)} :
           n \in 0..most}

FileSystemsUpTo(most) ==
    {[listable |-> TRUE, rows |-> rows] : rows \in FsTreesUpTo(most)}
    \cup {[listable |-> FALSE, rows |-> <<>>]}

NotLoaded == [tag |-> "NotLoaded"]

DirectoryIdle ==
    /\ fs = [listable |-> TRUE, rows |-> <<>>]
    /\ loaded = NotLoaded

DirectoryGiven ==
    /\ fs \in FileSystemsUpTo(MaxFsEntries)
    /\ loaded = NotLoaded

FromDirectory ==
    /\ loaded = NotLoaded
    /\ loaded' = from_directory(fs)
    /\ UNCHANGED fs
    /\ UNCHANGED exceptDirectory

(***************************************************************************)
(* The display strings of one compound, asked for in either order.         *)
(***************************************************************************)
Subjects ==
    {Compound(iupac, common, local, "C2H6O", "C2H6O") :
        iupac \in {"ethanol", "benzene", "propanone"},
        common \in {None, Some("ethanol"), Some("ethyl alcohol"), Some("benzol")},
        local \in {None, Some("etanol"), Some("benzen")}}

CompoundIdle ==
    /\ subject = Ethanol
    /\ labels = [english_label |-> None, display_name |-> None]

CompoundGiven ==
    /\ subject \in Subjects
    /\ labels = [english_label |-> None, display_name |-> None]

EnglishLabel ==
    /\ labels.english_label = None
    /\ labels' = [labels EXCEPT !.english_label = Some(english_label(subject))]
    /\ UNCHANGED subject
    /\ UNCHANGED exceptCompound

DisplayName ==
    /\ labels.display_name = None
    /\ labels' = [labels EXCEPT !.display_name = Some(display_name(subject))]
    /\ UNCHANGED subject
    /\ UNCHANGED exceptCompound

(***************************************************************************)
(* wasm.rs: the App component.  Its signals are the fields of one record;  *)
(* the signals that only drive presentation (theme, view_mode, feedback,   *)
(* hint_visible, selected_nodes) are left out.  Each callback is a         *)
(* function from the signals to the signals.                               *)
(***************************************************************************)
DEMO_OPTION_COUNT == 4

SessionScore(total, correct) == [total |-> total, correct |-> correct]

AnswerOverlay(item, dataset, selected, is_correct) ==
    [quiz |-> item, dataset |-> dataset, selected |-> selected,
     is_correct |-> is_correct]

\* QuizError's Display
to_string(error) ==
    IF error.kind = "NotEnoughCompounds"
    THEN "requires at least " \o ToString(error.required)
         \o " compounds but only " \o ToString(error.available) \o " provided"
    ELSE IF error.kind = "InsufficientUniqueOptions"
    THEN "requires at least " \o ToString(error.required)
         \o " unique options but only " \o ToString(error.unique) \o " available"
    ELSE "option count must be at least 2"

\* the compound files the catalog of the model offers, and demo_compounds()
Alkane(name, skeletal, molecular) == Compound(name, None, None, skeletal, molecular)

demo_compounds ==
    <<Ethanol, Benzene, Alkane("methane", "CH4", "CH4"),
      Alkane("ethane", "CH3-CH3", "C2H6")>>

AppLeaves ==
    {CatalogLeaf(<<"Organic", "Alkanes">>, "catalog/alkanes.json"),
     CatalogLeaf(<<"Organic", "Alcohols">>, "catalog/alcohols.json"),
     CatalogLeaf(<<"Organic", "Aromatics">>, "catalog/aromatics.json")}

\* what the server holds under each path; the last file is too short for a quiz
FileContents(file) ==
    IF file = "catalog/alkanes.json"
    THEN <<Alkane("methane", "CH4", "CH4"), Alkane("ethane", "CH3-CH3", "C2H6"),
           Alkane("propane", "CH3-CH2-CH3", "C3H8"), Benzene>>
    ELSE IF file = "catalog/alcohols.json"
    THEN <<Compound("methanol", None, None, "CH3-OH", "CH4O"), Ethanol,
           Alkane("propane", "CH3-CH2-CH3", "C3H8"), Benzene>>
    ELSE <<Benzene>>

\* fetch_compound_file: the list of the file, or the message of a failed request
FetchErrors == {"Failed to fetch"}

fetch_compound_file(file, failure) ==
    IF failure = None THEN Ok(FileContents(file)) ELSE Err(failure[1])

\* dataset.iter().find(|compound| compound.english_label() == label).cloned()
RECURSIVE find_by_name(_, _)
find_by_name(dataset, label) ==
    IF dataset = <<>> THEN None
    ELSE IF english_label(Head(dataset)) = label THEN Some(Head(dataset))
    ELSE find_by_name(Tail(dataset), label)

\* dataset.iter().find(|compound| compound.display_structure() == label).cloned()
RECURSIVE find_by_structure(_, _)
find_by_structure(dataset, label) ==
    IF dataset = <<>> THEN None
    ELSE IF display_structure(Head(dataset)) = label THEN Some(Head(dataset))
    ELSE find_by_structure(Tail(dataset), label)

compound_for_prompt(dataset, item) ==
    IF item.mode = "NameToStructure" THEN find_by_name(dataset, item.prompt)
    ELSE find_by_structure(dataset, item.prompt)

\* the compounds of the model carry no series formula, functional group or
\* note, which leaves the last branch of hint_from_compound
hint_from_compound(compound) ==
    IF compound.molecular_formula # ""
    THEN Some("Molecular formula: " \o compound.molecular_formula)
    ELSE None

\* the states StdRng::from_entropy() starts the model's generator in
EntropySeeds == {0, 24}

\* Result::map_err(|error| error.to_string())
map_err(generated) ==
    IF generated.tag = "Ok" THEN generated ELSE Err(to_string(generated.error))

generate_from_dataset(seed, hkeys, dataset, m) ==
    map_err(generate_quiz(seed, dataset, m, DEMO_OPTION_COUNT, hkeys).result)

AppNew ==
    [mode |-> "NameToStructure", active_mode |-> "NameToStructure",
     quiz |-> None, error |-> None, active_dataset |-> demo_compounds,
     scene |-> "Menu", selected_option |-> None, score |-> SessionScore(0, 0),
     answer_overlay |-> None, hint |-> None, selected_leaf |-> None,
     compounds |-> None]

\* the two arms of regenerate's match on the generated quiz
regenerated(cleared, dataset, generated) ==
    IF generated.tag = "Ok"
    THEN LET prompt_compound == compound_for_prompt(dataset, generated.value)
         IN  [app |-> [cleared EXCEPT !.error = None,
                                      !.active_dataset = dataset,
                                      !.hint =
                                          IF prompt_compound = None THEN None
                                          ELSE hint_from_compound(prompt_compound[1]),
                                      !.quiz = Some(generated.value)],
              returned |-> TRUE]
    ELSE [app |-> [cleared EXCEPT !.quiz = None,
                                  !.hint = None,
                                  !.error = Some(generated.error)],
          returned |-> FALSE]

\* compounds.get().unwrap_or_else(|| active_dataset.get())
dataset_of(a) == IF a.compounds # None THEN a.compounds[1] ELSE a.active_dataset

\* the signals after regenerate, and the bool it returns
regenerate(a, seed, hkeys) ==
    regenerated([a EXCEPT !.selected_option = None, !.answer_overlay = None],
                dataset_of(a),
                generate_from_dataset(seed, hkeys, dataset_of(a), a.active_mode))

\* if regenerate() { set_scene.set(Scene::Game) }
game_if(regenerate_result) ==
    IF regenerate_result.returned
    THEN [regenerate_result.app EXCEPT !.scene = "Game"]
    ELSE regenerate_result.app

start_game(a, seed, hkeys) ==
    game_if(regenerate([a EXCEPT !.score = SessionScore(0, 0),
                                 !.active_mode = a.mode,
                                 !.answer_overlay = None],
                       seed, hkeys))

return_to_menu(a) ==
    [a EXCEPT !.scene = "Menu", !.quiz = None, !.selected_option = None,
              !.answer_overlay = None, !.hint = None]

\* the score and the overlay after an accepted click on option index
scored(a, index) ==
    LET item == a.quiz[1]
        is_correct == index = item.correct_index
    IN  [a EXCEPT !.selected_option = Some(index),
                  !.score = SessionScore(a.score.total + 1,
                                         a.score.correct
                                             + (IF is_correct THEN 1 ELSE 0)),
                  !.answer_overlay =
                      Some(AnswerOverlay(item, a.active_dataset, index, is_correct))]

\* a choose_option that scores a question again when another option is clicked
choose_option_again(a, index) ==
    IF a.scene # "Game" THEN a
    ELSE IF a.quiz # None THEN scored(a, index)
    ELSE a

choose_option(a, index) ==
    IF a.scene # "Game" \/ a.selected_option # None THEN a
    ELSE IF a.quiz # None THEN scored(a, index)
    ELSE a

next_question(a, seed, hkeys) ==
    game_if(regenerate([a EXCEPT !.selected_option = None, !.answer_overlay = None],
                       seed, hkeys))

\* handle_selection up to spawn_local
handle_selection(a, leaf) ==
    [a EXCEPT !.selected_leaf = Some(leaf), !.error = None, !.quiz = None,
              !.scene = "Menu", !.compounds = None, !.hint = None]

\* the future handle_selection spawned, once fetch_compound_file has resolved
on_fetched(a, fetched) ==
    IF fetched.tag = "Ok"
    THEN [a EXCEPT !.compounds = Some(fetched.value)]
    ELSE [a EXCEPT !.error = Some(fetched.error)]

Request(leaf, status) == [leaf |-> leaf, status |-> status]

AppIdle ==
    /\ app = AppNew
    /\ requests = <<>>
    /\ asked = 0
    /\ log = <<>>

\* a click on one of the two mode buttons of the menu
SetMode ==
    /\ app.scene = "Menu"
    /\ \E m \in QuizModes \ {app.mode} : app' = [app EXCEPT !.mode = m]
    /\ UNCHANGED <<requests, asked, log>>
    /\ UNCHANGED exceptApp

\* a click on "Start quiz", which the menu scene shows
StartGame ==
    /\ app.scene = "Menu"
    /\ \E seed \in EntropySeeds, hkeys \in HashKeys :
           app' = start_game(app, seed, hkeys)
    /\ asked' = IF app'.quiz # None THEN 1 ELSE 0
    /\ log' = <<>>
    /\ UNCHANGED requests
    /\ UNCHANGED exceptApp

\* a click on an option button; the callback decides whether it counts
ChooseOption ==
    /\ \E index \in 0..(DEMO_OPTION_COUNT - 1) :
           /\ app' = choose_option(app, index)
           /\ log' = IF app.scene = "Game" /\ app.quiz # None
                        /\ app.selected_option = None
                     THEN Append(log, [question |-> asked,
                                       right |-> index = app.quiz[1].correct_index])
                     ELSE log
    /\ UNCHANGED <<requests, asked>>
    /\ UNCHANGED exceptApp

\* a click on "Next question", which the answer overlay shows
NextQuestion ==
    /\ app.scene = "Game"
    /\ app.answer_overlay # None
    /\ asked < MaxQuestions
    /\ \E seed \in EntropySeeds, hkeys \in HashKeys :
           app' = next_question(app, seed, hkeys)
    /\ asked' = IF app'.quiz # None THEN asked + 1 ELSE asked
    /\ UNCHANGED <<requests, log>>
    /\ UNCHANGED exceptApp

\* a click on "Back to menu", which the answer overlay shows
ReturnToMenu ==
    /\ app.scene = "Game"
    /\ app.answer_overlay # None
    /\ app' = return_to_menu(app)
    /\ UNCHANGED <<requests, asked, log>>
    /\ UNCHANGED exceptApp

\* a click on a leaf of the catalog tree, which the menu scene shows
HandleSelection ==
    /\ app.scene = "Menu"
    /\ Len(requests) < MaxClicks
    /\ \E leaf \in AppLeaves :
           /\ app' = handle_selection(app, leaf)
           /\ requests' = Append(requests, Request(leaf, "pending"))
    /\ UNCHANGED <<asked, log>>
    /\ UNCHANGED exceptApp

\* one of the spawned futures resumes; the responses arrive in any order
Fetched ==
    /\ \E k \in 1..Len(requests), failure \in {None} \cup {Some(e) : e \in FetchErrors} :
           /\ requests[k].status = "pending"
           /\ app' = on_fetched(app, fetch_compound_file(requests[k].leaf.file, failure))
           /\ requests' = [requests EXCEPT
                              ![k].status = IF failure = None THEN "loaded" ELSE "failed"]
    /\ UNCHANGED <<asked, log>>
    /\ UNCHANGED exceptApp

(***************************************************************************)
(* The specifications, one per component.                                  *)
(***************************************************************************)
CompoundInit ==
    QuizIdle /\ CatalogIdle /\ ManifestIdle /\ DirectoryIdle /\ CompoundGiven /\ AppIdle

CompoundNext == EnglishLabel \/ DisplayName

CompoundSpec == CompoundInit /\ [][CompoundNext]_vars

AppInit == QuizIdle /\ CatalogIdle /\ ManifestIdle /\ DirectoryIdle /\ CompoundIdle /\ AppIdle

AppNext ==
    SetMode \/ StartGame \/ ChooseOption \/ NextQuestion \/ ReturnToMenu
    \/ HandleSelection \/ Fetched

AppSpec == AppInit /\ [][AppNext]_vars

ManifestInit == QuizIdle /\ CatalogIdle /\ ManifestLoaded /\ DirectoryIdle /\ CompoundIdle /\ AppIdle

ManifestNext == Leaves

ManifestSpec == ManifestInit /\ [][ManifestNext]_vars

DirectoryInit == QuizIdle /\ CatalogIdle /\ ManifestIdle /\ DirectoryGiven /\ CompoundIdle /\ AppIdle

DirectoryNext == FromDirectory

DirectorySpec == DirectoryInit /\ [][DirectoryNext]_vars

CatalogInit == QuizIdle /\ CatalogNew /\ ManifestIdle /\ DirectoryIdle /\ CompoundIdle /\ AppIdle

CatalogNext == CompoundsFor \/ AllCompounds \/ AvailablePaths \/ ModifyReturned

CatalogSpec == CatalogInit /\ [][CatalogNext]_vars

QuizInit == QuizIdle /\ CatalogIdle /\ ManifestIdle /\ DirectoryIdle /\ CompoundIdle /\ AppIdle

QuizNext == GenerateQuiz \/ Replay

QuizSpec == QuizInit /\ [][QuizNext]_vars

(***************************************************************************)
(* Properties of generate_quiz, stated over the last call's arguments and  *)
(* its outcome.                                                            *)
(***************************************************************************)
Succeeded == outcome.tag = "Ok"
Called == outcome # NoCall

\* the option-rule labels of the call's compounds, as a set
OptionLabels == {option_text(compounds[i], mode) : i \in 1..Len(compounds)}

\* C1: whenever generate_quiz succeeds, the item has exactly option_count
\* options and correct_index is a valid (0-based) index into them.
C1_OptionCountAndIndex ==
    Succeeded =>
        /\ Len(outcome.value.options) = option_count
        /\ outcome.value.correct_index \in 0..(Len(outcome.value.options) - 1)

\* a successful call that had more distinct labels than options to fill
C1_Witness ==
    /\ Succeeded
    /\ Cardinality(OptionLabels) > option_count

\* C2: whenever generate_quiz succeeds, the options are pairwise distinct,
\* also when the input holds equal labels or duplicate compounds.
C2_OptionsDistinct ==
    Succeeded =>
        \A i, j \in 1..Len(outcome.value.options) :
            i # j => outcome.value.options[i] # outcome.value.options[j]

\* a successful call on a list in which two positions carry the same label
C2_Witness ==
    /\ Succeeded
    /\ \E i, j \in 1..Len(compounds) :
        i < j /\ option_text(compounds[i], mode) = option_text(compounds[j], mode)

\* the compound the tests look up: the first whose complementary display
\* string equals the prompt (0 when there is none)
MatchedByPrompt ==
    LET hits == {i \in 1..Len(compounds) :
                    prompt_text(compounds[i], mode) = outcome.value.prompt}
    IN  IF hits = {} THEN 0 ELSE CHOOSE i \in hits : \A j \in hits : i <= j

\* C3: whenever generate_quiz succeeds, the first compound of the input whose
\* complementary display string equals the prompt has its option-rule label
\* equal to options[correct_index].
C3_PromptLookupMatchesCorrectOption ==
    Succeeded =>
        /\ MatchedByPrompt # 0
        /\ option_text(compounds[MatchedByPrompt], mode)
             = outcome.value.options[outcome.value.correct_index + 1]

\* C4: whenever generate_quiz succeeds, one input compound renders both the
\* prompt (complementary rule) and options[correct_index] (option rule).
C4_PromptAndCorrectOptionSameCompound ==
    Succeeded =>
        \E i \in 1..Len(compounds) :
            /\ option_text(compounds[i], mode)
                 = outcome.value.options[outcome.value.correct_index + 1]
            /\ prompt_text(compounds[i], mode) = outcome.value.prompt

\* a successful call whose second shuffle moved the correct option off
\* position 0
C4_Witness ==
    /\ Succeeded
    /\ outcome.value.correct_index > 0

\* C5: a call with option_count < 2 fails with OptionCountTooSmall, whatever
\* the compounds and the mode.
C5_OptionCountTooSmall ==
    (Called /\ option_count < 2) => outcome = Err(OptionCountTooSmall)

\* a call with option_count 1 on the empty list, rejected for its option count
C5_Witness ==
    /\ outcome = Err(OptionCountTooSmall)
    /\ option_count = 1
    /\ compounds = <<>>

\* C6 as claimed: every call with compounds.len() < option_count fails with
\* NotEnoughCompounds{required: option_count, available: compounds.len()}.
C6_Original ==
    (Called /\ Len(compounds) < option_count) =>
        /\ outcome.tag = "Err"
        /\ outcome.error = [kind |-> "NotEnoughCompounds",
                            required |-> option_count,
                            available |-> Len(compounds)]

\* C6 amended: every call with option_count >= 2 and
\* compounds.len() < option_count fails with
\* NotEnoughCompounds{required: option_count, available: compounds.len()}.
C6_NotEnoughCompounds ==
    (Called /\ option_count >= 2 /\ Len(compounds) < option_count) =>
        /\ outcome.tag = "Err"
        /\ outcome.error = [kind |-> "NotEnoughCompounds",
                            required |-> option_count,
                            available |-> Len(compounds)]

\* a call for three options on two compounds
C6_Witness ==
    /\ Called
    /\ option_count = 3
    /\ Len(compounds) = 2
    /\ outcome.tag = "Err"
    /\ outcome.error.kind = "NotEnoughCompounds"

\* C7 as claimed: every call whose labels collapse to k distinct values with
\* option_count > k fails with InsufficientUniqueOptions{option_count, k}.
C7_Original ==
    (Called /\ option_count > Cardinality(OptionLabels)) =>
        /\ outcome.tag = "Err"
        /\ outcome.error = [kind |-> "InsufficientUniqueOptions",
                            required |-> option_count,
                            unique |-> Cardinality(OptionLabels)]

\* C7 amended: every call with option_count >= 2 and at least option_count
\* compounds whose labels collapse to k < option_count distinct values fails
\* with InsufficientUniqueOptions{required: option_count, unique: k}.
C7_InsufficientUniqueOptions ==
    (/\ Called
     /\ option_count >= 2
     /\ Len(compounds) >= option_count
     /\ option_count > Cardinality(OptionLabels)) =>
        /\ outcome.tag = "Err"
        /\ outcome.error = [kind |-> "InsufficientUniqueOptions",
                            required |-> option_count,
                            unique |-> Cardinality(OptionLabels)]

\* a call for three options on three compounds with two distinct labels
C7_Witness ==
    /\ Called
    /\ option_count = 3
    /\ Len(compounds) = 3
    /\ Cardinality(OptionLabels) = 2
    /\ outcome.tag = "Err"
    /\ outcome.error.kind = "InsufficientUniqueOptions"

\* C8: a call repeated with the same compounds, mode, option_count and the
\* random source in the same state returns the same result and leaves the
\* random source in the same state, whatever the hash keys of its HashSet.
C8_Deterministic ==
    replay # NoReplay =>
        /\ replay.result = outcome
        /\ replay.rng = rng

\* a successful call, on a list with a repeated label, that was repeated
C8_Witness ==
    /\ replay # NoReplay
    /\ Succeeded
    /\ Cardinality(OptionLabels) < Len(compounds)
    /\ rng # rngBefore

(***************************************************************************)
(* Properties of Catalog::compounds_for, stated over the catalog's         *)
(* entries, the last query and its result.                                 *)
(***************************************************************************)
Queried == query.op = "compounds_for"

\* P is an element-wise prefix of a category path
IsPrefixOf(P, categories) ==
    /\ Len(P) <= Len(categories)
    /\ \A k \in 1..Len(P) : categories[k] = P[k]

\* the entries whose category path has P as a prefix, in catalog order
MatchingEntries(P) == SelectSeq(entries, LAMBDA e : IsPrefixOf(P, e.categories))

\* C9: for a non-empty path P, compounds_for(P) returns the compounds of
\* exactly the entries whose category path has P as an element-wise prefix,
\* one per matching entry (duplicates kept), none from any other entry; with
\* no matching entry it returns no list at all.
C9_CompoundsForPrefix ==
    (Queried /\ query.path # <<>>) =>
        LET hit == MatchingEntries(query.path) IN
        IF hit = <<>> THEN queryResult.tag = "Err"
        ELSE queryResult = Ok([i \in 1..Len(hit) |-> hit[i].compound])

\* a query that matches one entry and not another whose own path is a
\* proper prefix of the queried path
C9_Witness ==
    /\ Queried
    /\ queryResult.tag = "Ok"
    /\ Len(queryResult.value) < Len(entries)
    /\ \E i \in 1..Len(entries) :
        /\ entries[i].categories # <<>>
        /\ Len(entries[i].categories) < Len(query.path)
        /\ IsPrefixOf(entries[i].categories, query.path)

\* C10: compounds_for with an empty path fails with EmptyPath for every
\* catalog; it never returns all compounds.
C10_EmptyPath ==
    (Queried /\ query.path = <<>>) => queryResult = Err(EmptyPath)

\* the empty path queried on a catalog holding an entry whose own category
\* path is empty
C10_Witness ==
    /\ Queried
    /\ query.path = <<>>
    /\ queryResult = Err(EmptyPath)
    /\ \E i \in 1..Len(entries) : entries[i].categories = <<>>

\* the text CategoryNotFound carries for a queried path: its labels in
\* order, " / " between neighbours
RECURSIVE PathText(_)
PathText(P) ==
    IF Len(P) = 1 THEN P[1]
    ELSE PathText(SubSeq(P, 1, Len(P) - 1)) \o " / " \o P[Len(P)]

\* C11: compounds_for with a non-empty path that is a prefix of no entry's
\* category path fails with CategoryNotFound carrying the queried labels
\* joined by " / "; it never returns an empty Ok list.
C11_CategoryNotFound ==
    (Queried /\ query.path # <<>> /\ MatchingEntries(query.path) = <<>>) =>
        /\ queryResult.tag = "Err"
        /\ queryResult.error = [kind |-> "CategoryNotFound",
                                path |-> PathText(query.path)]

\* a two-label path queried on a non-empty catalog none of whose entries
\* lies under it
C11_Witness ==
    /\ Queried
    /\ Len(query.path) = 2
    /\ entries # <<>>
    /\ queryResult.tag = "Err"
    /\ queryResult.error.kind = "CategoryNotFound"

\* C12: available_paths() is exactly the set of the non-empty prefixes of the
\* entries' category paths: every prefix of every entry, nothing else, never
\* the empty path.
C12_AvailablePaths ==
    query.op = "available_paths" =>
        /\ \A i \in 1..Len(entries) :
             \A n \in 1..Len(entries[i].categories) :
                \E P \in queryResult.value :
                    Len(P) = n /\ IsPrefixOf(P, entries[i].categories)
        /\ \A P \in queryResult.value :
             /\ P # <<>>
             /\ \E i \in 1..Len(entries) : IsPrefixOf(P, entries[i].categories)

\* available_paths on a catalog with a two-label entry and an entry without
\* any category
C12_Witness ==
    /\ query.op = "available_paths"
    /\ \E i, j \in 1..Len(entries) :
        /\ Len(entries[i].categories) = 2
        /\ entries[j].categories = <<>>
    /\ Cardinality(queryResult.value) = 2

\* what a query answers on the catalog as it was built
AnswerWhenBuilt ==
    IF query.op = "compounds_for" THEN compounds_for(built, query.path)
    ELSE IF query.op = "all_compounds" THEN Ok(all_compounds(built))
    ELSE Ok(available_paths(built))

\* C20: no query changes the catalog's entries, so after any sequence of
\* queries (failing ones included) a query returns what it returns on the
\* freshly built catalog, also after the caller changed a returned list.
C20_CatalogImmutable ==
    /\ entries = built
    /\ query # NoQuery => queryResult = AnswerWhenBuilt

\* the caller has cleared the list all_compounds returned for a catalog of
\* two entries, and the catalog still answers with both
C20_Witness ==
    /\ query.op = "all_compounds"
    /\ Len(entries) = 2
    /\ held # NothingHeld
    /\ held.vec = <<>>
    /\ queryResult.value = all_compounds(built)

(***************************************************************************)
(* Properties of CatalogManifest::leaves, stated over the manifest         *)
(* document and the returned list.                                         *)
(***************************************************************************)
Flattened == leaves # NotFlattened

\* the returned list
Listed == leaves.value

\* the nodes of the document that name a file
FileBearing == {i \in 1..Len(outline) : outline[i].file # None}

\* the node a leaf was emitted for, known by its file (0 for a foreign file)
NodeOfLeaf(leaf) ==
    IF \E i \in FileBearing : outline[i].file = Some(leaf.file)
    THEN CHOOSE i \in FileBearing : outline[i].file = Some(leaf.file)
    ELSE 0

\* the ancestor of node i at depth d (node i itself at its own depth)
AncestorAt(i, d) ==
    CHOOSE j \in 1..i :
        /\ outline[j].depth = d
        /\ \A k \in (j + 1)..i : outline[k].depth # d

\* the labels from the root of node i down to node i
ChainLabels(i) == [d \in 1..outline[i].depth |-> outline[AncestorAt(i, d)].label]

\* C13: leaves() returns exactly one leaf per file-bearing node, whether or
\* not the node has children, and none for a node without a file.
C13_OneLeafPerFileNode ==
    Flattened =>
        /\ Len(Listed) = Cardinality(FileBearing)
        /\ \A k \in 1..Len(Listed) : NodeOfLeaf(Listed[k]) # 0
        /\ \A i \in FileBearing :
             Cardinality({k \in 1..Len(Listed) : NodeOfLeaf(Listed[k]) = i}) = 1

\* a flattened manifest with a file-bearing node that has a file-bearing
\* child, and a node without a file
C13_Witness ==
    /\ Flattened
    /\ \E i \in FileBearing :
        i < Len(outline) /\ i + 1 \in FileBearing
        /\ outline[i + 1].depth = outline[i].depth + 1
    /\ \E i \in 1..Len(outline) : i \notin FileBearing
    /\ Len(Listed) >= 2

\* C14: every leaf's path is the labels from its root down to its own node,
\* in that order, and its file is that node's file; labels of sibling
\* subtrees or other roots never appear in it.
C14_LeafPathIsRootToNode ==
    Flattened =>
        \A k \in 1..Len(Listed) :
            /\ NodeOfLeaf(Listed[k]) # 0
            /\ Listed[k].path = ChainLabels(NodeOfLeaf(Listed[k]))

\* a leaf for a node that follows a sibling subtree carrying another label
C14_Witness ==
    /\ Flattened
    /\ \E k \in 1..Len(Listed) :
        LET i == NodeOfLeaf(Listed[k]) IN
        /\ i > 2
        /\ outline[i].depth = 2
        /\ outline[i - 1].depth >= 2
        /\ outline[i - 1].label # outline[i].label
        /\ Len(Listed[k].path) = 2

\* C15: the leaves come in the depth-first pre-order of the forest, roots and
\* children in input order (the document order of the nodes): a node's leaf
\* before its descendants', a sibling's subtree before a later sibling's.
C15_LeavesInPreOrder ==
    Flattened =>
        \A k, l \in 1..Len(Listed) :
            k < l => NodeOfLeaf(Listed[k]) < NodeOfLeaf(Listed[l])

\* siblings "Organic" then "Alcohols", both with a file, under a
\* file-bearing parent: three leaves, the siblings not in label order
C15_Witness ==
    /\ Flattened
    /\ Len(Listed) = 3
    /\ Len(outline) = 3
    /\ outline[2].depth = 2 /\ outline[3].depth = 2
    /\ outline[2].label = "Organic" /\ outline[3].label = "Alcohols"
    /\ Listed[2].path[2] = "Organic"

(***************************************************************************)
(* Properties of Catalog::from_directory, stated over the rows of the file *)
(* system and the returned result.                                         *)
(***************************************************************************)
Loaded == loaded # NotLoaded

Rows == fs.rows

\* the directory at depth d that row i lies in
EnclosingAt(i, d) ==
    CHOOSE j \in 1..i :
        /\ Rows[j].depth = d
        /\ \A k \in (j + 1)..i : Rows[k].depth # d

\* the directories from the root (exclusive) down to the one holding row i
DirsAbove(i) == [d \in 1..(Rows[i].depth - 1) |-> Rows[EnclosingAt(i, d)].entry]

\* their names, one per level
NamesAbove(i) == [d \in 1..(Rows[i].depth - 1) |-> DirsAbove(i)[d].name]

\* the names among them that are valid Unicode
LabelsAbove(i) ==
    LET unicode == SelectSeq(DirsAbove(i), LAMBDA e : e.unicode)
    IN  [d \in 1..Len(unicode) |-> unicode[d].name]

RECURSIVE Slashed(_)
Slashed(names) ==
    IF names = <<>> THEN "" ELSE "/" \o names[1] \o Slashed(Tail(names))

\* the path of row i as the errors print it
FsPath(i) == RootPath \o Slashed(Append(NamesAbove(i), entry_name(Rows[i].entry)))

IsJson(i) == ~Rows[i].entry.is_dir /\ Rows[i].entry.extension = "json"

IsIndexJson(i) == IsJson(i) /\ Rows[i].entry.stem = "index"

\* the error row i raises when the walk gets to it, if any
FailureOf(i) ==
    LET e == Rows[i].entry IN
    IF e.is_dir THEN (IF e.listable THEN None ELSE Some(ReadError(FsPath(i))))
    ELSE IF ~IsJson(i) THEN None
    ELSE IF LabelsAbove(i) = <<>>
         THEN (IF IsIndexJson(i) THEN None ELSE Some(EmptyCategoryPath))
    ELSE IF e.data.tag = "Unreadable" THEN Some(ReadError(FsPath(i)))
    ELSE IF e.data.tag # "CompoundList" THEN Some(ParseError(FsPath(i)))
    ELSE None

Failing == {i \in 1..Len(Rows) : FailureOf(i) # None}

\* the first failure in walk order
FirstFailure ==
    IF ~fs.listable THEN Some(ReadError(RootPath))
    ELSE IF Failing = {} THEN None
    ELSE FailureOf(CHOOSE i \in Failing : \A j \in Failing : i <= j)

\* C16: every loaded compound carries the names of the directories from the
\* root (exclusive) down to its file's directory, one label per level, and
\* every data file's compounds are there under that path.
C16_CategoryPathIsDirectoryNames ==
    (Loaded /\ loaded.result.tag = "Ok") =>
        /\ \A k \in 1..Len(loaded.result.value) :
             \E i \in 1..Len(Rows) :
                /\ IsJson(i)
                /\ loaded.result.value[k].categories = NamesAbove(i)
        /\ \A i \in 1..Len(Rows) :
             (IsJson(i) /\ ~IsIndexJson(i)) =>
                \E k \in 1..Len(loaded.result.value) :
                    loaded.result.value[k].categories = NamesAbove(i)

\* a JSON file directly in the root that is not index.json
RootDataFile(i) == Rows[i].depth = 1 /\ IsJson(i) /\ ~IsIndexJson(i)

\* index.json directly in the root is neither read nor blamed
RootIndexIgnored ==
    \A i \in 1..Len(Rows) :
        (Rows[i].depth = 1 /\ IsIndexJson(i)) =>
            /\ FsPath(i) \notin Range(loaded.reads)
            /\ loaded.result # Err(ReadError(FsPath(i)))
            /\ loaded.result # Err(ParseError(FsPath(i)))

\* C17 as written: a JSON file directly in the root, other than index.json,
\* makes from_directory fail with EmptyCategoryPath; index.json is ignored.
C17_Original ==
    Loaded =>
        /\ \A i \in 1..Len(Rows) :
             RootDataFile(i) => loaded.result = Err(EmptyCategoryPath)
        /\ RootIndexIgnored

\* C17: a JSON file directly in the root, other than index.json, makes
\* from_directory fail, with EmptyCategoryPath unless an entry walked before
\* it failed first; index.json in the root is neither read nor blamed, and a
\* root holding only index.json and directories loads when nothing below
\* fails.
C17_RootDataFileFails ==
    Loaded =>
        /\ \A i \in 1..Len(Rows) :
             RootDataFile(i) =>
                /\ loaded.result.tag = "Err"
                /\ \/ loaded.result.error = EmptyCategoryPath
                   \/ \E j \in 1..(i - 1) : FailureOf(j) = Some(loaded.result.error)
        /\ RootIndexIgnored
        /\ (/\ fs.listable
            /\ \A i \in 1..Len(Rows) :
                 Rows[i].depth = 1 => (Rows[i].entry.is_dir \/ IsIndexJson(i))
            /\ Failing = {}) => loaded.result.tag = "Ok"

\* a root with index.json and a data file: EmptyCategoryPath
C17_Witness ==
    /\ Loaded
    /\ \E i, j \in 1..Len(Rows) :
        RootDataFile(i) /\ Rows[j].depth = 1 /\ IsIndexJson(j) /\ j < i
    /\ loaded.result = Err(EmptyCategoryPath)

\* C18: index.json is skipped, not read as compound data, at every level.
C18_IndexJsonSkippedAnywhere ==
    Loaded =>
        \A i \in 1..Len(Rows) :
            IsIndexJson(i) => FsPath(i) \notin Range(loaded.reads)

\* the directories that the walk gets to and cannot list, and the JSON files
\* under a category that cannot be read or parsed
Offending ==
    {i \in Failing :
        IF Rows[i].entry.is_dir THEN \A j \in Failing : i <= j
        ELSE FailureOf(i) # Some(EmptyCategoryPath)}

\* C19 as written: with any such directory or file, from_directory returns
\* ReadError or ParseError carrying an offending path.
C19_Original ==
    (Loaded /\ (Offending # {} \/ ~fs.listable)) =>
        /\ loaded.result.tag = "Err"
        /\ \/ loaded.result.error = ReadError(RootPath)
           \/ \E i \in Offending : FailureOf(i) = Some(loaded.result.error)

\* the loaded entries when nothing fails: two per data file that was read
Complete ==
    Len(loaded.result.value) =
        2 * Cardinality({i \in 1..Len(Rows) : IsJson(i) /\ LabelsAbove(i) # <<>>})

\* C19: no failure is dropped: with any failure in the tree from_directory
\* returns the first one in walk order and no catalog (ReadError or
\* ParseError with the path of that directory or file, or EmptyCategoryPath
\* when a data file without a category comes first); Ok only when nothing
\* fails, and then with the compounds of every data file.
C19_FirstFailureReturned ==
    Loaded =>
        /\ FirstFailure # None => loaded.result = Err(FirstFailure[1])
        /\ loaded.result.tag = "Ok" => (FirstFailure = None /\ Complete)

\* a file that parses is read, then one that does not: ParseError with the
\* path of the second, and no catalog
C19_Witness ==
    /\ Loaded
    /\ Len(loaded.reads) = 2
    /\ loaded.result = Err(ParseError(loaded.reads[2]))
    /\ \E i \in Offending : FsPath(i) = loaded.reads[2]

(***************************************************************************)
(* Properties of the display strings of a compound.                        *)
(***************************************************************************)
CommonDiffers ==
    subject.common_name # None /\ subject.common_name[1] # subject.iupac_name

ExpectedEnglish ==
    IF CommonDiffers
    THEN subject.iupac_name \o " (" \o subject.common_name[1] \o ")"
    ELSE subject.iupac_name

\* C21: english_label is "{iupac_name} ({common_name})" exactly when a common
\* name is present and differs from the IUPAC name and the bare iupac_name
\* otherwise; display_name is that label, followed by " / {local_name}" only
\* when a local name is present.
C21_DisplayStrings ==
    /\ labels.english_label # None =>
          /\ labels.english_label[1] = ExpectedEnglish
          /\ (labels.english_label[1] # subject.iupac_name) <=> CommonDiffers
    /\ labels.display_name # None =>
          labels.display_name[1] =
              IF subject.local_name # None
              THEN ExpectedEnglish \o " / " \o subject.local_name[1]
              ELSE ExpectedEnglish

\* both strings returned for a compound whose common name equals its IUPAC
\* name and that has a local name
C21_Witness ==
    /\ labels.english_label = Some("ethanol")
    /\ labels.display_name = Some("ethanol / etanol")
    /\ subject.common_name = Some("ethanol")

(***************************************************************************)
(* Further properties of generate_quiz.                                    *)
(***************************************************************************)
\* the 0-based indices of the compounds no earlier compound shares its
\* option-rule label with
KeptFirst ==
    {k \in 0..(Len(compounds) - 1) :
        \A j \in 0..(k - 1) :
            option_text(compounds[j + 1], mode) # option_text(compounds[k + 1], mode)}

\* C22: deduplication keeps the first occurrence of each option label: every
\* option is the label of a kept compound, and one kept compound renders both
\* the correct option and the prompt, so the complementary string of a
\* discarded compound is never the prompt.
C22_FirstOccurrenceKept ==
    Succeeded =>
        /\ \A p \in 1..Len(outcome.value.options) :
             \E k \in KeptFirst :
                outcome.value.options[p] = option_text(compounds[k + 1], mode)
        /\ \E k \in KeptFirst :
             /\ outcome.value.options[outcome.value.correct_index + 1]
                  = option_text(compounds[k + 1], mode)
             /\ outcome.value.prompt = prompt_text(compounds[k + 1], mode)

\* a successful call whose correct option is a label that a later, discarded
\* compound with another prompt string also carries
C22_Witness ==
    /\ Succeeded
    /\ \E k \in KeptFirst, j \in 0..(Len(compounds) - 1) :
        /\ j > k
        /\ option_text(compounds[j + 1], mode) = option_text(compounds[k + 1], mode)
        /\ prompt_text(compounds[j + 1], mode) # prompt_text(compounds[k + 1], mode)
        /\ outcome.value.options[outcome.value.correct_index + 1]
             = option_text(compounds[k + 1], mode)

RECURSIVE Factorial(_)
Factorial(n) == IF n <= 1 THEN 1 ELSE n * Factorial(n - 1)

\* states of the random source whose draws leave the first shuffle alone and
\* run through every outcome of the second
PositionSeeds ==
    {k * Factorial(Cardinality(KeptFirst)) : k \in 0..(Factorial(option_count) - 1)}

\* the kept indices in input order
KeptInOrder ==
    [i \in 1..Cardinality(KeptFirst) |->
        CHOOSE k \in KeptFirst : Cardinality({j \in KeptFirst : j < k}) = i - 1]

\* C23: the correct compound is the first index after the first shuffle, its
\* option sits at correct_index, and every position 0..option_count-1 is the
\* correct_index of the same call for some state of the random source.
C23_CorrectPositionDecoupled ==
    Succeeded =>
        /\ LET first == shuffle(KeptInOrder, rngBefore).slice[1] IN
             /\ outcome.value.prompt = prompt_text(compounds[first + 1], mode)
             /\ outcome.value.options[outcome.value.correct_index + 1]
                  = option_text(compounds[first + 1], mode)
        /\ \A i \in 0..(option_count - 1) :
             \E seed \in PositionSeeds :
                generate_quiz(seed, compounds, mode, option_count, 0)
                    .result.value.correct_index = i

\* a successful call with three options whose correct compound is not the
\* first kept one and whose correct option is in the middle
C23_Witness ==
    /\ Succeeded
    /\ option_count = 3
    /\ outcome.value.correct_index = 1
    /\ outcome.value.prompt # prompt_text(compounds[1], mode)

\* C24: generate_quiz returns Ok iff option_count >= 2 and there are at least
\* option_count distinct option labels; otherwise the one error that comes
\* first in the order OptionCountTooSmall, NotEnoughCompounds,
\* InsufficientUniqueOptions.
C24_OutcomeCharacterised ==
    Called =>
        /\ Succeeded <=> (option_count >= 2 /\ Cardinality(OptionLabels) >= option_count)
        /\ ~Succeeded =>
             /\ outcome.tag = "Err"
             /\ outcome.error.kind =
                  IF option_count < 2 THEN "OptionCountTooSmall"
                  ELSE IF Len(compounds) < option_count THEN "NotEnoughCompounds"
                  ELSE "InsufficientUniqueOptions"

\* a call with as many compounds as options but a repeated label
C24_Witness ==
    /\ Called
    /\ option_count = 3
    /\ Len(compounds) = 3
    /\ Cardinality(OptionLabels) = 2
    /\ outcome.tag = "Err"

\* C25: a call that returns an error has drawn nothing: the random source is
\* in the state it was in before the call.
C25_ErrorDrawsNothing ==
    (Called /\ outcome.tag = "Err") => rng = rngBefore

\* a failed call made with a random source that is not in its zero state
C25_Witness ==
    /\ Called
    /\ outcome.tag = "Err"
    /\ outcome.error.kind = "InsufficientUniqueOptions"
    /\ rngBefore = 35

(***************************************************************************)
(* The catalog queries against each other.                                 *)
(***************************************************************************)
\* the entries that have a category path
Categorised == SelectSeq(entries, LAMBDA e : e.categories # <<>>)

\* C26: for a non-empty path P, compounds_for(P) succeeds iff P is a member
\* of available_paths() and fails with CategoryNotFound iff it is not; an
\* entry with an empty category path is returned by all_compounds, by no
\* compounds_for call, and adds nothing to available_paths.
C26_QueriesAgree ==
    /\ (Queried /\ query.path # <<>>) =>
          /\ queryResult.tag = "Ok" <=> query.path \in available_paths(entries)
          /\ (queryResult.tag = "Err" /\ queryResult.error.kind = "CategoryNotFound")
               <=> query.path \notin available_paths(entries)
          /\ queryResult.tag = "Ok" =>
               Len(queryResult.value) =
                  Len(SelectSeq(Categorised, LAMBDA e : IsPrefixOf(query.path, e.categories)))
    /\ query.op = "all_compounds" =>
          queryResult.value = [i \in 1..Len(entries) |-> entries[i].compound]
    /\ query.op = "available_paths" =>
          queryResult.value =
             {P \in CategoryPaths \ {<<>>} :
                 \E i \in 1..Len(Categorised) : IsPrefixOf(P, Categorised[i].categories)}

\* a query for a proper prefix of the path of one entry, on a catalog that
\* also holds an entry without a category path
C26_Witness ==
    /\ Queried
    /\ queryResult.tag = "Ok"
    /\ Len(entries) = 2
    /\ Len(queryResult.value) = 1
    /\ \E i \in 1..2 : entries[i].categories = <<>>
    /\ \E i \in 1..2 : Len(entries[i].categories) > Len(query.path)


AllFetched ==
    /\ requests # <<>>
    /\ \A k \in 1..Len(requests) : requests[k].status = "loaded"

LastClicked == requests[Len(requests)].leaf

\* C27: in the wasm UI, once every fetch that the leaf clicks started has
\* completed successfully, whatever the order of the responses, selected_leaf
\* is the most recently clicked leaf and the loaded compounds are the
\* contents of that leaf's file, the dataset a quiz started then is drawn from.
C27_LastClickedLeafLoaded ==
    AllFetched =>
        /\ app.selected_leaf = Some(LastClicked)
        /\ app.compounds = Some(FileContents(LastClicked.file))

\* C28: in the wasm UI every generated question is scored at most once:
\* score.total is the number of questions answered since the last
\* start_game, each of them a different question, score.correct is the
\* number of those answered with correct_index, and correct <= total.
C28_ScoredAtMostOnce ==
    /\ app.score.correct <= app.score.total
    /\ app.score.total = Len(log)
    /\ app.score.correct = Cardinality({k \in 1..Len(log) : log[k].right})
    /\ \A k, l \in 1..Len(log) : log[k].question = log[l].question => k = l
    /\ Len(log) <= asked

C28_Witness ==
    /\ app.scene = "Game"
    /\ app.selected_option # None
    /\ app.score = SessionScore(2, 1)
    /\ asked = 2

PromptCompound == compound_for_prompt(app.active_dataset, app.quiz[1])

\* C29: in the wasm UI, for the quiz that regenerate generated from the active
\* dataset, compound_for_prompt finds a compound, and that compound's option
\* label is options[correct_index]: it is the compound generate_quiz
\* designated as correct.
C29_PromptCompoundIsCorrect ==
    app.quiz # None =>
        /\ PromptCompound # None
        /\ option_text(PromptCompound[1], app.quiz[1].mode)
             = app.quiz[1].options[app.quiz[1].correct_index + 1]

====
